---- MODULE Spec2Model ----
(***************************************************************************)
(* Model of package imager (mamur-rezeki/imager): the Imager handle, its   *)
(* three constructors, LoadByte/LoadFile, Resize/Crop/Rotate, Bytes and    *)
(* Save.  An image is modelled by the size of its bounds (every image the  *)
(* imaging package returns has its origin at (0,0)); an encoded byte       *)
(* buffer by the sequence <<magic, width, height>> a codec writes and      *)
(* parses.  The calls into image, image/jpeg, image/png, image/gif and     *)
(* github.com/disintegration/imaging are modelled by what those functions  *)
(* do with the sizes, the format names and the errors.                     *)
(***************************************************************************)
EXTENDS Integers, Sequences, FiniteSets, TLC

\* ------------------------------------------------------------------ bounds
\* Largest side of the small images and of the small resize arguments.
MaxDim == 5
\* Largest side of the resize and crop arguments in the life-cycle runs.
SmallDim == 2
\* Number of Imager handles the program may allocate.
MaxHandles == 2

\* ------------------------------------------------------------ basic values
\* The nil error.
Nil == "nil"

Min2(a, b) == IF a < b THEN a ELSE b
Max2(a, b) == IF a > b THEN a ELSE b
Abs(a) == IF a < 0 THEN -a ELSE a

\* Go's integer division truncates toward zero.
QuoT(a, b) == IF a >= 0 THEN a \div b ELSE -((-a) \div b)

\* An image.Image value: the nil interface value, or an image by the size of
\* its bounds.
NilImage == [isNil |-> TRUE, w |-> 0, h |-> 0]
Img(w, h) == [isNil |-> FALSE, w |-> w, h |-> h]
IsNil(img) == img.isNil
\* &image.NRGBA{}: the empty image the imaging package returns.
EmptyImg == Img(0, 0)
IsEmptyImg(img) == ~img.isNil /\ (img.w <= 0 \/ img.h <= 0)

\* ------------------------------------------------------------ format tags
IMJPEG == "jpeg"
IMJPG == "jpg"
IMGIF == "gif"
IMPNG == "png"
IMWEBP == "webp"
\* The exported format tag constants.
TagConstants == {IMJPEG, IMJPG, IMGIF, IMPNG, IMWEBP}

\* ------------------------------------------------------------ resize modes
MD_FIT == 0
MD_CROP == 1
MD_SCALE == 2
MD_STRETCH == 3

\* ------------------------------------------------------------- rectangles
\* image.Rect: a well-formed rectangle, the coordinates swapped if needed.
Rect(x0, y0, x1, y1) ==
  [x0 |-> Min2(x0, x1), y0 |-> Min2(y0, y1),
   x1 |-> Max2(x0, x1), y1 |-> Max2(y0, y1)]
ZR == [x0 |-> 0, y0 |-> 0, x1 |-> 0, y1 |-> 0]
RectEmpty(r) == r.x0 >= r.x1 \/ r.y0 >= r.y1
RectAdd(r, px, py) ==
  [x0 |-> r.x0 + px, y0 |-> r.y0 + py, x1 |-> r.x1 + px, y1 |-> r.y1 + py]
\* image.Rectangle.Intersect: the zero rectangle when the overlap is empty.
Intersect(r, s) ==
  LET t == [x0 |-> Max2(r.x0, s.x0), y0 |-> Max2(r.y0, s.y0),
            x1 |-> Min2(r.x1, s.x1), y1 |-> Min2(r.y1, s.y1)]
  IN IF RectEmpty(t) THEN ZR ELSE t
Bounds(img) == [x0 |-> 0, y0 |-> 0, x1 |-> img.w, y1 |-> img.h]

\* ------------------------------------------------- the imaging primitives
\* What a call into the imaging package yields: a new image, or a run-time
\* panic (a method call on the nil image.Image, or on the nil colour inside
\* &image.Uniform{}).
Ok(img) == [panic |-> FALSE, img |-> img]
Panic == [panic |-> TRUE, img |-> NilImage]

\* imaging.Resize(img, width, height, filter).  The result size does not
\* depend on the filter.  A zero width or height is derived from the other
\* side and the source's aspect ratio, rounded, at least 1.
ImagingResize(img, width, height) ==
  IF width < 0 \/ height < 0 THEN Ok(EmptyImg)
  ELSE IF width = 0 /\ height = 0 THEN Ok(EmptyImg)
  ELSE IF IsNil(img) THEN Panic
  ELSE IF IsEmptyImg(img) THEN Ok(EmptyImg)
  ELSE LET dstW == IF width = 0
                   THEN Max2(1, (2 * height * img.w + img.h) \div (2 * img.h))
                   ELSE width
           dstH == IF height = 0
                   THEN Max2(1, (2 * dstW * img.h + img.w) \div (2 * img.w))
                   ELSE height
       IN Ok(Img(dstW, dstH))

\* imaging.Fit(img, width, height, filter): the source itself when it fits,
\* else the box side the source's aspect ratio fills, the other side
\* truncated (int(float64(..))), handed to Resize.  The float64 quotients
\* equal the integer quotients below for every side up to 12 and for 50
\* and 100.
ImagingFit(img, width, height) ==
  IF width <= 0 \/ height <= 0 THEN Ok(EmptyImg)
  ELSE IF IsNil(img) THEN Panic
  ELSE IF IsEmptyImg(img) THEN Ok(EmptyImg)
  ELSE IF img.w <= width /\ img.h <= height THEN Ok(img)
  ELSE IF img.w * height > width * img.h
       THEN ImagingResize(img, width, (width * img.h) \div img.w)
       ELSE ImagingResize(img, (height * img.w) \div img.h, height)

\* imaging.Crop(img, rect): the part of rect inside the image.
ImagingCrop(img, rect) ==
  IF IsNil(img) THEN Panic
  ELSE LET r == Intersect(rect, Bounds(img))
       IN IF RectEmpty(r) THEN Ok(EmptyImg)
          ELSE Ok(Img(r.x1 - r.x0, r.y1 - r.y0))

\* imaging.CropCenter(img, width, height): CropAnchor with the Center
\* anchor; no resampling takes place.
ImagingCropCenter(img, width, height) ==
  IF IsNil(img) THEN Panic
  ELSE LET b == Bounds(img)
           px == b.x0 + QuoT((b.x1 - b.x0) - width, 2)
           py == b.y0 + QuoT((b.y1 - b.y0) - height, 2)
           r == RectAdd(Rect(0, 0, width, height), px, py)
       IN ImagingCrop(img, Intersect(b, r))

\* imaging.Rotate(img, angle, &image.Uniform{}): the right angles go to
\* Clone/Rotate90/Rotate180/Rotate270; any other angle converts the
\* background colour, and the Uniform's nil colour panics there, unless the
\* image is empty and the function returned before.
ImagingRotate(img, degrees) ==
  LET angle == degrees % 360
  IN IF IsNil(img) THEN Panic
     ELSE IF angle = 0 \/ angle = 180 THEN Ok(Img(img.w, img.h))
     ELSE IF angle = 90 \/ angle = 270 THEN Ok(Img(img.h, img.w))
     ELSE IF IsEmptyImg(img) THEN Ok(EmptyImg)
     ELSE Panic

\* ------------------------------------------------------------- the codecs
\* A byte buffer is the sequence <<magic, width, height>>; a shorter one is
\* a truncated stream.
MagicJPEG == "FFD8"
MagicPNG == "89PNG"
MagicGIF == "GIF8"
MagicBMP == "BM"
MagicTIFF == "II*"
\* A WebP stream: no decoder for it is linked into the package.
MagicWEBP == "RIFF"

\* The formats registered with package image when this package is linked:
\* image/gif, image/jpeg, image/png by its own imports, bmp and tiff by the
\* imports of the imaging package.  "" is "no format matches".
Sniff(data) ==
  IF Len(data) = 0 THEN ""
  ELSE CASE data[1] = MagicJPEG -> "jpeg"
         [] data[1] = MagicPNG -> "png"
         [] data[1] = MagicGIF -> "gif"
         [] data[1] = MagicBMP -> "bmp"
         [] data[1] = MagicTIFF -> "tiff"
         [] OTHER -> ""

\* The largest side a JPEG or GIF frame header can hold (16 bits).
MaxSide16 == 2^16 - 1

\* A registered format's decoder, on a stream whose magic matched: no
\* image and an error on a truncated stream or on a size the format does
\* not allow.
FormatDecode(format, data) ==
  IF Len(data) < 3 THEN [img |-> NilImage, err |-> "unexpected EOF"]
  ELSE LET w == data[2]
           h == data[3]
           bad == \/ w < 0 \/ h < 0
                  \/ (format = "png" /\ (w = 0 \/ h = 0))
                  \/ (format \in {"jpeg", "gif"} /\ (w > MaxSide16 \/ h > MaxSide16))
       IN IF bad THEN [img |-> NilImage, err |-> "invalid format"]
          ELSE [img |-> Img(w, h), err |-> Nil]

\* image.Decode: the image, the name of the format that matched, the error.
Decode(data) ==
  LET f == Sniff(data)
  IN IF f = ""
     THEN [img |-> NilImage, format |-> "", err |-> "image: unknown format"]
     ELSE LET r == FormatDecode(f, data)
          IN [img |-> r.img, format |-> f, err |-> r.err]

\* What an encoder does: the bytes written, the error, or a panic on the
\* nil image (m.Bounds()).
Encoded(buf) == [panic |-> FALSE, buf |-> buf, err |-> Nil]
EncodeFailed(e) == [panic |-> FALSE, buf |-> <<>>, err |-> e]
EncodePanic == [panic |-> TRUE, buf |-> <<>>, err |-> "panic"]

\* jpeg.Encode(buf, img, &jpeg.Options{Quality: 100})
JpegEncode(img) ==
  IF IsNil(img) THEN EncodePanic
  ELSE IF img.w > MaxSide16 \/ img.h > MaxSide16
       THEN EncodeFailed("jpeg: image is too large to encode")
       ELSE Encoded(<<MagicJPEG, img.w, img.h>>)

\* png.Encode(buf, img)
PngEncode(img) ==
  IF IsNil(img) THEN EncodePanic
  ELSE IF img.w <= 0 \/ img.h <= 0
       THEN EncodeFailed("png: invalid image size")
       ELSE Encoded(<<MagicPNG, img.w, img.h>>)

\* gif.Encode(buf, img, &gif.Options{})
GifEncode(img) ==
  IF IsNil(img) THEN EncodePanic
  ELSE IF img.w > MaxSide16 \/ img.h > MaxSide16
       THEN EncodeFailed("gif: image is too large to encode")
       ELSE Encoded(<<MagicGIF, img.w, img.h>>)

\* Bytes() with an encoder wired to the "webp" tag.
BytesResultWebpAsPng(img, tag) ==
  CASE tag \in {IMJPG, IMJPEG} -> JpegEncode(img)
    [] tag \in {IMPNG, IMWEBP} -> PngEncode(img)
    [] tag = IMGIF -> GifEncode(img)
    [] OTHER -> Encoded(<<>>)

\* Bytes() with the "png" arm calling the JPEG encoder.
BytesResultPngAsJpeg(img, tag) ==
  CASE tag \in {IMJPG, IMJPEG, IMPNG} -> JpegEncode(img)
    [] tag = IMGIF -> GifEncode(img)
    [] OTHER -> Encoded(<<>>)

\* Bytes(): the encoder the switch on ImageType selects; no encoder runs
\* for any other tag, and the untouched buffer and the nil error return.
BytesResult(img, tag) ==
  CASE tag \in {IMJPG, IMJPEG} -> JpegEncode(img)
    [] tag = IMPNG -> PngEncode(img)
    [] tag = IMGIF -> GifEncode(img)
    [] OTHER -> Encoded(<<>>)

\* -------------------------------------------------------- the file system
\* The paths the program uses.  The name of a file says nothing about its
\* content: a.jpg holds a PNG stream, c.webp a JPEG stream; nodir/d.png
\* lies in a directory that does not exist.
Paths == {"a.jpg", "c.webp", "nodir/d.png"}
Ext(path) ==
  CASE path = "a.jpg" -> "jpg"
    [] path = "c.webp" -> "webp"
    [] path = "nodir/d.png" -> "png"
DirExists(path) == path # "nodir/d.png"
NoFile == [exists |-> FALSE, data |-> <<>>]
File(data) == [exists |-> TRUE, data |-> data]
InitialFiles ==
  [p \in Paths |->
     CASE p = "a.jpg" -> File(<<MagicPNG, 2, 1>>)
       [] p = "c.webp" -> File(<<MagicJPEG, 1, 2>>)
       [] OTHER -> NoFile]

VARIABLES
  addr,       \* address of the handle the program holds, 0 before the first
  Image,      \* the handle's Image field
  ImageType,  \* the handle's ImageType field
  fs,         \* the files: path -> [exists, data]
  ret,        \* the last call: its name, arguments and results
  panicked    \* a run-time panic has ended the program

vars == <<addr, Image, ImageType, fs, ret, panicked>>

\* The record of a call.  handle is the address of the *Imager returned (0:
\* nil, or the call returns no handle).
Call(op, handle, err) ==
  [op |-> op, handle |-> handle, err |-> err, buf |-> <<>>, path |-> "",
   data |-> <<>>, w |-> 0, h |-> 0, x |-> 0, y |-> 0, modes |-> <<>>,
   degrees |-> 0]

Init ==
  /\ addr = 0
  /\ Image = NilImage
  /\ ImageType = ""
  /\ fs = InitialFiles
  /\ ret = Call("", 0, Nil)
  /\ panicked = FALSE

\* imaging.FormatFromFilename: the format of a file name's extension, ""
\* when imaging supports none for it.
FormatFromExtension(ext) ==
  CASE ext \in {"jpg", "jpeg"} -> "jpeg"
    [] ext = "png" -> "png"
    [] ext = "gif" -> "gif"
    [] ext \in {"tif", "tiff"} -> "tiff"
    [] ext = "bmp" -> "bmp"
    [] OTHER -> ""

\* ---------------------------------------------------------- constructors
\* What a constructor returns: a handle (with its fields) or nil, and the
\* error.
Handle(img, tag, err) ==
  [handle |-> TRUE, Image |-> img, ImageType |-> tag, err |-> err]
NoHandle(err) ==
  [handle |-> FALSE, Image |-> NilImage, ImageType |-> "", err |-> err]

NewImagerResult(img) == Handle(img, "", Nil)

\* NewImagerFromFile taking the tag from the file name's extension.
NewImagerFromFileByExt(location) ==
  IF ~fs[location].exists THEN NoHandle("open: no such file or directory")
  ELSE LET d == Decode(fs[location].data)
       IN IF d.err # Nil THEN NoHandle(d.err)
          ELSE Handle(d.img, FormatFromExtension(Ext(location)), Nil)

NewImagerFromFileResult(location) ==
  IF ~fs[location].exists THEN NoHandle("open: no such file or directory")
  ELSE LET d == Decode(fs[location].data)
       IN IF d.err # Nil THEN NoHandle(d.err)
          ELSE LET imgr == NewImagerResult(d.img)
               IN Handle(imgr.Image, d.format, imgr.err)

\* NewImagerFromBytes returning the handle together with the decode error.
NewImagerFromBytesPartial(data) ==
  LET d == Decode(data)
  IN Handle(d.img, d.format, d.err)

NewImagerFromBytesResult(data) ==
  LET d == Decode(data)
  IN IF d.err # Nil THEN NoHandle(d.err)
     ELSE Handle(d.img, d.format, Nil)

\* The caller receives the result: a new handle at a fresh address, or nil
\* (and then keeps the handle it had).
Construct(r, call) ==
  /\ ~panicked
  /\ addr < MaxHandles
  /\ IF r.handle
     THEN /\ addr' = addr + 1
          /\ Image' = r.Image
          /\ ImageType' = r.ImageType
          /\ ret' = [call EXCEPT !.handle = addr + 1, !.err = r.err]
     ELSE /\ UNCHANGED <<addr, Image, ImageType>>
          /\ ret' = [call EXCEPT !.handle = 0, !.err = r.err]
  /\ UNCHANGED <<fs, panicked>>

NewImager(img) ==
  Construct(NewImagerResult(img), Call("NewImager", 0, Nil))

NewImagerFromFile(location) ==
  Construct(NewImagerFromFileResult(location),
            [Call("NewImagerFromFile", 0, Nil) EXCEPT !.path = location])

NewImagerFromBytes(data) ==
  Construct(NewImagerFromBytesResult(data),
            [Call("NewImagerFromBytes", 0, Nil) EXCEPT !.data = data])

\* imgr.ImageType = IMJPEG: the field is exported and callers assign it.
SetImageType(tag) ==
  /\ ~panicked
  /\ addr # 0
  /\ ImageType' = tag
  /\ ret' = Call("SetImageType", 0, Nil)
  /\ UNCHANGED <<addr, Image, fs, panicked>>

\* ------------------------------------------------------ Bytes and Save
Bytes ==
  /\ ~panicked
  /\ addr # 0
  /\ LET r == BytesResult(Image, ImageType)
     IN /\ ret' = [Call("Bytes", 0, r.err) EXCEPT !.buf = r.buf]
        /\ panicked' = r.panic
  /\ UNCHANGED <<addr, Image, ImageType, fs>>

\* imaging.Encode(file, img, format)
ImagingEncode(img, format) ==
  CASE format = "jpeg" -> JpegEncode(img)
    [] format = "png" -> PngEncode(img)
    [] format = "gif" -> GifEncode(img)
    [] format = "tiff" ->
         IF IsNil(img) THEN EncodePanic ELSE Encoded(<<MagicTIFF, img.w, img.h>>)
    [] format = "bmp" ->
         IF IsNil(img) THEN EncodePanic ELSE Encoded(<<MagicBMP, img.w, img.h>>)

\* imaging.Save(img, location): the format comes from the extension; the
\* file is created (truncated) before the encoder runs.
SaveResult(img, location) ==
  LET f == FormatFromExtension(Ext(location))
  IN IF f = ""
     THEN [panic |-> FALSE, err |-> "imaging: unsupported image format", fs |-> fs]
     ELSE IF ~DirExists(location)
     THEN [panic |-> FALSE, err |-> "create: no such file or directory", fs |-> fs]
     ELSE LET e == ImagingEncode(img, f)
          IN [panic |-> e.panic, err |-> e.err,
              fs |-> [fs EXCEPT ![location] = File(e.buf)]]

Save(location) ==
  /\ ~panicked
  /\ addr # 0
  /\ LET r == SaveResult(Image, location)
     IN /\ fs' = r.fs
        /\ ret' = [Call("Save", 0, r.err) EXCEPT !.path = location]
        /\ panicked' = r.panic
  /\ UNCHANGED <<addr, Image, ImageType>>

\* ------------------------------------------------- LoadByte and LoadFile
\* Both assign the three results of image.Decode to the fields directly.
\* LoadByte storing the stream's magic instead of the format name.
LoadByteResultMagic(data) ==
  LET d == Decode(data)
  IN [Image |-> d.img,
      ImageType |-> IF d.format = "" THEN "" ELSE data[1],
      err |-> d.err]

LoadByteResult(data) ==
  LET d == Decode(data)
  IN [Image |-> d.img, ImageType |-> d.format, err |-> d.err]

LoadByte(data) ==
  /\ ~panicked
  /\ addr # 0
  /\ LET r == LoadByteResult(data)
     IN /\ Image' = r.Image
        /\ ImageType' = r.ImageType
        /\ ret' = [Call("LoadByte", 0, r.err) EXCEPT !.data = data]
  /\ UNCHANGED <<addr, fs, panicked>>

LoadFileResult(location) ==
  IF ~fs[location].exists
  THEN [Image |-> Image, ImageType |-> ImageType,
        err |-> "open: no such file or directory"]
  ELSE LET d == Decode(fs[location].data)
       IN [Image |-> d.img, ImageType |-> d.format, err |-> d.err]

LoadFile(location) ==
  /\ ~panicked
  /\ addr # 0
  /\ LET r == LoadFileResult(location)
     IN /\ Image' = r.Image
        /\ ImageType' = r.ImageType
        /\ ret' = [Call("LoadFile", 0, r.err) EXCEPT !.path = location]
  /\ UNCHANGED <<addr, fs, panicked>>

\* ------------------------------------------------ Resize, Crop, Rotate
\* The variadic modes: the last one given, MD_FIT when none is.
ModeOf(modes) == IF Len(modes) = 0 THEN MD_FIT ELSE modes[Len(modes)]

\* Resize with MD_CROP scaling the source to cover the box before cropping
\* (imaging.Fill).
ResizeResultCropFills(img, width, height, modes) ==
  LET mode == ModeOf(modes)
  IN CASE mode = MD_SCALE -> ImagingResize(img, width, height)
       [] mode = MD_CROP ->
            IF width <= 0 \/ height <= 0 THEN Ok(EmptyImg)
            ELSE IF IsNil(img) THEN Panic
            ELSE IF IsEmptyImg(img) THEN Ok(EmptyImg)
            ELSE Ok(Img(width, height))
       [] mode = MD_FIT -> ImagingFit(img, width, height)
       [] mode = MD_STRETCH -> ImagingResize(img, width, height)
       [] OTHER -> Ok(img)

\* Resize with MD_FIT (and the default) resampling to the exact box.
ResizeResultFitStretches(img, width, height, modes) ==
  LET mode == ModeOf(modes)
  IN CASE mode = MD_SCALE -> ImagingResize(img, width, height)
       [] mode = MD_CROP -> ImagingCropCenter(img, width, height)
       [] mode = MD_FIT -> ImagingResize(img, width, height)
       [] mode = MD_STRETCH -> ImagingResize(img, width, height)
       [] OTHER -> Ok(img)

\* Resize with MD_SCALE keeping the aspect ratio, as its comment says.
ResizeResultScaleFits(img, width, height, modes) ==
  LET mode == ModeOf(modes)
  IN CASE mode = MD_SCALE -> ImagingFit(img, width, height)
       [] mode = MD_CROP -> ImagingCropCenter(img, width, height)
       [] mode = MD_FIT -> ImagingFit(img, width, height)
       [] mode = MD_STRETCH -> ImagingResize(img, width, height)
       [] OTHER -> Ok(img)

\* The image Resize assigns; a mode outside the four leaves the field alone.
ResizeResult(img, width, height, modes) ==
  LET mode == ModeOf(modes)
  IN CASE mode = MD_SCALE -> ImagingResize(img, width, height)
       [] mode = MD_CROP -> ImagingCropCenter(img, width, height)
       [] mode = MD_FIT -> ImagingFit(img, width, height)
       [] mode = MD_STRETCH -> ImagingResize(img, width, height)
       [] OTHER -> Ok(img)

CropResult(img, width, height, x, y) ==
  ImagingCrop(img, Rect(x, y, x + width, y + height))

RotateResult(img, degrees) == ImagingRotate(img, degrees)

\* A mutating method returning a modified copy of its receiver.
MutateCopy(r, call) ==
  /\ ~panicked
  /\ addr # 0
  /\ IF r.panic
     THEN /\ panicked' = TRUE
          /\ ret' = [call EXCEPT !.err = "panic"]
          /\ UNCHANGED <<addr, Image, ImageType, fs>>
     ELSE /\ addr' = addr + 1
          /\ Image' = r.img
          /\ ret' = [call EXCEPT !.handle = addr + 1]
          /\ UNCHANGED <<ImageType, fs, panicked>>

\* A mutating method: it assigns the new image and returns its receiver; a
\* panic in the imaging call ends the program before the assignment.
Mutate(r, call) ==
  /\ ~panicked
  /\ addr # 0
  /\ IF r.panic
     THEN /\ panicked' = TRUE
          /\ ret' = [call EXCEPT !.err = "panic"]
          /\ UNCHANGED <<addr, Image, ImageType, fs>>
     ELSE /\ Image' = r.img
          /\ ret' = [call EXCEPT !.handle = addr]
          /\ UNCHANGED <<addr, ImageType, fs, panicked>>

Resize(width, height, modes) ==
  Mutate(ResizeResult(Image, width, height, modes),
         [Call("Resize", 0, Nil) EXCEPT !.w = width, !.h = height, !.modes = modes])

Crop(width, height, x, y) ==
  Mutate(CropResult(Image, width, height, x, y),
         [Call("Crop", 0, Nil) EXCEPT !.w = width, !.h = height, !.x = x, !.y = y])

Rotate(degrees) ==
  Mutate(RotateResult(Image, degrees),
         [Call("Rotate", 0, Nil) EXCEPT !.degrees = degrees])

\* ------------------------------------------------------------ the inputs
\* Byte buffers handed to NewImagerFromBytes and LoadByte: empty, a WebP
\* stream, a truncated PNG stream, and well-formed streams of the
\* registered formats (one PNG wider than a JPEG header can hold).
Buffers ==
  {<<>>, <<MagicWEBP, 1, 1>>, <<MagicPNG>>, <<MagicJPEG, 2, 1>>,
   <<MagicPNG, 1, 2>>, <<MagicGIF, 1, 1>>, <<MagicTIFF, 1, 1>>,
   <<MagicBMP, 2, 2>>,
   <<MagicPNG, MaxSide16 + 1, 1>>}
Images == {NilImage, Img(SmallDim, SmallDim)}
ModeLists ==
  {<<>>, <<MD_FIT>>, <<MD_CROP>>, <<MD_SCALE>>, <<MD_STRETCH>>,
   <<MD_STRETCH + 4>>, <<MD_CROP, MD_SCALE>>}
ResizeArgs == {<<-1, 1>>, <<0, 0>>, <<1, SmallDim>>, <<SmallDim, SmallDim>>}
CropArgs == {<<1, 1, 0, 0>>, <<SmallDim, 1, 1, 0>>, <<1, 1, 0, SmallDim + 1>>}
Angles == {0, 90, -90, 45}

Next ==
  \/ \E img \in Images : NewImager(img)
  \/ \E location \in Paths : NewImagerFromFile(location)
  \/ \E data \in Buffers : NewImagerFromBytes(data)
  \/ \E tag \in TagConstants : SetImageType(tag)
  \/ Bytes
  \/ \E location \in Paths : Save(location)
  \/ \E data \in Buffers : LoadByte(data)
  \/ \E location \in Paths : LoadFile(location)
  \/ \E a \in ResizeArgs, modes \in ModeLists : Resize(a[1], a[2], modes)
  \/ \E a \in CropArgs : Crop(a[1], a[2], a[3], a[4])
  \/ \E degrees \in Angles : Rotate(degrees)

Spec == Init /\ [][Next]_vars

\* The geometry runs: handles built from decoded images of every small size
\* and of 100 x 100, resized into every small box and into 50 x 50.
GeoSides == (1 .. MaxDim) \cup {100}
GeoArgs == (0 .. MaxDim) \cup {50}
GeoModeLists == {<<>>, <<MD_FIT>>, <<MD_CROP>>, <<MD_SCALE>>, <<MD_STRETCH>>}

NextResize ==
  \/ \E w, h \in GeoSides : NewImager(Img(w, h))
  \/ \E width, height \in GeoArgs, modes \in GeoModeLists :
       Resize(width, height, modes)
  \/ \E x \in {0, 1, 200} : Crop(MaxDim, 1, x, 0)
  \/ \E degrees \in {90, 45} : Rotate(degrees)

SpecResize == Init /\ [][NextResize]_vars

\* ---------------------------------------------------------------- claims
Encoders == {IMJPG, IMJPEG, IMPNG, IMGIF}
DecodeOps == {"NewImagerFromFile", "NewImagerFromBytes", "LoadByte", "LoadFile"}
\* The last call was Resize, it returned, and it ran in this mode with a
\* positive box.
Resized(call, mode) ==
  /\ call.op = "Resize"
  /\ call.err = Nil
  /\ ModeOf(call.modes) = mode
  /\ call.w > 0
  /\ call.h > 0

\* C1: NewImagerFromFile and NewImagerFromBytes return either a handle with
\* a non-nil Image, the decoder's format as ImageType and a nil error, or a
\* nil handle with a non-nil error; the latter exactly when the file cannot
\* be opened or the decode fails.
C1_ConstructionAtomic ==
  ret.op \in {"NewImagerFromFile", "NewImagerFromBytes"} =>
    LET opened == ret.op = "NewImagerFromBytes" \/ fs[ret.path].exists
        d == Decode(IF ret.op = "NewImagerFromBytes" THEN ret.data
                    ELSE fs[ret.path].data)
    IN IF opened /\ d.err = Nil
       THEN /\ ret.handle # 0
            /\ ret.handle = addr
            /\ ret.err = Nil
            /\ ~IsNil(Image)
            /\ ImageType = d.format
       ELSE /\ ret.handle = 0
            /\ ret.err # Nil

\* A stream of a registered format that fails to decode gave no handle.
C1_Witness ==
  /\ ret.op = "NewImagerFromBytes"
  /\ Sniff(ret.data) = "png"
  /\ ret.handle = 0
  /\ ret.err # Nil

\* C2: Bytes() returns the JPEG encoder's bytes and error for "jpg" and
\* "jpeg", the PNG encoder's for "png", the GIF encoder's for "gif", and an
\* empty buffer with a nil error for "webp", the empty tag and any other
\* tag, whatever image is held.
C2_BytesByTag ==
  (ret.op = "Bytes" /\ ~panicked) =>
    /\ ImageType \in {IMJPG, IMJPEG} =>
         ret.buf = JpegEncode(Image).buf /\ ret.err = JpegEncode(Image).err
    /\ ImageType = IMPNG =>
         ret.buf = PngEncode(Image).buf /\ ret.err = PngEncode(Image).err
    /\ ImageType = IMGIF =>
         ret.buf = GifEncode(Image).buf /\ ret.err = GifEncode(Image).err
    /\ ImageType \notin Encoders => ret.buf = <<>> /\ ret.err = Nil

\* Bytes() on a handle tagged "webp" that holds a real image.
C2_Witness ==
  /\ ret.op = "Bytes"
  /\ ImageType = IMWEBP
  /\ ~IsNil(Image)
  /\ ~IsEmptyImg(Image)
  /\ ret.buf = <<>>
  /\ ret.err = Nil

\* C3 as stated: Resize(width, height, MD_CROP) with a positive box leaves
\* an image of exactly width x height, for every source size.
C3_CropExactSize ==
  [][(Resized(ret', MD_CROP) /\ ~IsNil(Image)) => Image' = Img(ret'.w, ret'.h)]_vars

\* C3 amended: Resize(width, height, MD_CROP) does not scale; it leaves the
\* centred width x height window clipped to the source, an image of
\* min(W, width) x min(H, height), which is width x height exactly when the
\* source is at least that large on both sides.
C3_CropClipsToSource ==
  [][(Resized(ret', MD_CROP) /\ ~IsNil(Image)) =>
       Image' = Img(Min2(Image.w, ret'.w), Min2(Image.h, ret'.h))]_vars

\* An MD_CROP resize whose result is narrower than the box asked for.
C3_Witness ==
  /\ Resized(ret, MD_CROP)
  /\ ~IsEmptyImg(Image)
  /\ Image.w < ret.w
  /\ Image.h = ret.h

\* The size (w, h) fits the box and has the aspect ratio of the source
\* src within one pixel on one side.
FitsWithin(img, src, width, height) ==
  /\ 1 <= img.w /\ img.w <= width
  /\ 1 <= img.h /\ img.h <= height
  /\ Abs(img.w * src.h - img.h * src.w) <= Max2(src.w, src.h)

FitExample(call, src, img) ==
  (call.modes = <<>> /\ call.w = 50 /\ call.h = 50 /\ src = Img(100, 100)) =>
    img = Img(50, 50)

\* C4 as stated: Resize(w, h, MD_FIT), and Resize(w, h) with no mode, leave
\* an image inside the box, at least 1 x 1, with the source's aspect ratio
\* within one pixel, for every source size; 100 x 100 into (50, 50) gives
\* 50 x 50.
C4_FitWithinBox ==
  [][(Resized(ret', MD_FIT) /\ ~IsNil(Image)) =>
       /\ FitsWithin(Image', Image, ret'.w, ret'.h)
       /\ FitExample(ret', Image, Image')]_vars

\* C4 amended: the same, for every source that is not empty (an empty
\* source, as Crop outside the image leaves, stays empty).
C4_FitWithinBoxNonEmpty ==
  [][(Resized(ret', MD_FIT) /\ ~IsNil(Image) /\ ~IsEmptyImg(Image)) =>
       /\ FitsWithin(Image', Image, ret'.w, ret'.h)
       /\ FitExample(ret', Image, Image')]_vars

\* Resize(50, 50) with no mode has left a 50 x 50 image.
C4_Witness ==
  /\ Resized(ret, MD_FIT)
  /\ ret.modes = <<>>
  /\ ret.w = 50
  /\ ret.h = 50
  /\ ret.handle = addr
  /\ Image = Img(50, 50)

C7_FileAndBytesAgree ==
  /\ \A p \in Paths :
       fs[p].exists =>
         LET a == NewImagerFromFileResult(p)
             b == NewImagerFromBytesResult(fs[p].data)
         IN /\ a.handle = b.handle
            /\ a.ImageType = b.ImageType
            /\ a.Image = b.Image
            /\ (Len(fs[p].data) = 3 /\ fs[p].data[1] = MagicJPEG) =>
                 (a.handle /\ a.ImageType = "jpeg")
  /\ (ret.op = "NewImagerFromFile" /\ fs[ret.path].exists) =>
       LET b == NewImagerFromBytesResult(fs[ret.path].data)
       IN /\ (ret.handle # 0) = b.handle
          /\ ret.handle # 0 => ImageType = b.ImageType

\* NewImagerFromFile on the JPEG stream stored under the name c.webp.
C7_Witness ==
  /\ ret.op = "NewImagerFromFile"
  /\ ret.path = "c.webp"
  /\ ret.handle = addr
  /\ addr # 0
  /\ ImageType = "jpeg"

\* C8: a handle whose Image is non-nil keeps a non-nil Image through every
\* call on it, failing LoadByte and LoadFile calls included.
C8_ImageNeverNil ==
  [][(addr # 0 /\ addr' = addr /\ ~IsNil(Image)) => ~IsNil(Image')]_vars

\* C9 as stated: the tag of a handle is empty or one of "jpeg", "jpg",
\* "png", "gif", "webp".
C9_TagInVocabulary ==
  addr # 0 => ImageType \in {""} \cup TagConstants

\* C9 amended: the tag of a handle is empty, one of the five tags, or "bmp"
\* or "tiff", the two further formats the decoder recognises in this
\* package (the imaging dependency registers them).
C9_TagInRegisteredFormats ==
  addr # 0 => ImageType \in {""} \cup TagConstants \cup {"bmp", "tiff"}

\* A handle whose tag is "tiff".
C9_Witness ==
  /\ addr # 0
  /\ ImageType = "tiff"
  /\ ~IsNil(Image)

\* C10: Resize, Crop and Rotate, when they return, return the handle they
\* were called on and leave its tag (and the files) as they were; Bytes and
\* Save change neither the image nor the tag.
C10_FrameOfMutators ==
  [][/\ (ret'.op \in {"Resize", "Crop", "Rotate"} /\ ~panicked') =>
          /\ ret'.handle = addr
          /\ addr' = addr
          /\ ImageType' = ImageType
          /\ fs' = fs
     /\ ret'.op \in {"Bytes", "Save"} =>
          /\ addr' = addr
          /\ Image' = Image
          /\ ImageType' = ImageType]_vars

\* Rotate has returned the handle of a decoded GIF, its tag still "gif".
C10_Witness ==
  /\ ret.op = "Rotate"
  /\ ret.handle = addr
  /\ addr # 0
  /\ ImageType = IMGIF
  /\ ~panicked

====
